---- MODULE Spec2Model ----
(***************************************************************************)
(* Model of the GLL (Geographic Position) sentence decoder,               *)
(* src/sentences/gll.rs.  A sentence is a message identifier and a data   *)
(* payload, both byte strings, modelled as sequences of one-character     *)
(* strings.  parse_gll is run one parser step at a time: the identity     *)
(* guard, then the eight steps of do_parse_gll, each of which either      *)
(* moves the cursor or ends the decode with an error (the `?` operator).  *)
(***************************************************************************)
EXTENDS Integers, Sequences, FiniteSets, TLC

VARIABLES message_id, data, pc, i, env, result, steps

vars == <<message_id, data, pc, i, env, result, steps>>

(***************************************************************************)
(* Bounds of the input space.                                              *)
(***************************************************************************)
\* longest free-form byte string placed after the time field's separator
MaxTail == 3

\* the bytes the free-form part of a payload is drawn from
TailAlphabet == {",", "A", "V", "D", "E", "M", "N", "X"}

RECURSIVE SeqsUpTo(_, _)
SeqsUpTo(S, n) ==
    IF n = 0 THEN {<<>>}
    ELSE LET shorter == SeqsUpTo(S, n - 1)
         IN  shorter \cup {Append(s, c) : s \in {t \in shorter : Len(t) = n - 1}, c \in S}

Tails == SeqsUpTo(TailAlphabet, MaxTail)

\* bytes appended after the free-form part: nothing, or one more field
Trailers == {<<>>, <<",", "A">>}

\* 5107.0013414,N,11402.3279144,W
LatLonNW ==
    <<"5", "1", "0", "7", ".", "0", "0", "1", "3", "4", "1", "4", ",", "N", ",">>
      \o <<"1", "1", "4", "0", "2", ".", "3", "2", "7", "9", "1", "4", "4", ",", "W">>

\* 4916.45,S,12311.12,E
LatLonSE ==
    <<"4", "9", "1", "6", ".", "4", "5", ",", "S", ",", "1", "2", "3", "1", "1", ".", "1", "2", ",", "E">>

\* 205412.00
TimeFrac == <<"2", "0", "5", "4", "1", "2", ".", "0", "0">>

\* the payload of test_parse_gpgll up to its status letter:
\* 5107.0013414,N,11402.3279144,W,205412.00,
HeadTest == LatLonNW \o <<",">> \o TimeFrac \o <<",">>

\* the same with an empty field after the time: ...,205412.00,,
HeadEmptyField == LatLonNW \o <<",">> \o TimeFrac \o <<",", ",">>

\* a time without fraction, southern and eastern hemisphere: ...,225444,
HeadNoFrac == LatLonSE \o <<",", "2", "2", "5", "4", "4", "4", ",">>

\* no separator after the time: ...,205412.00
HeadNoSep2 == LatLonNW \o <<",">> \o TimeFrac

\* a time that is not HHMMSS: ...,2054X2,
HeadBadTime == LatLonNW \o <<",", "2", "0", "5", "4", "X", "2", ",">>

\* no separator between the position and the time: ...,W205412,
HeadNoSep1 == LatLonNW \o <<"2", "0", "5", "4", "1", "2", ",">>

\* a hemisphere letter that is none: 5107.00,X,
HeadBadLatLon == <<"5", "1", "0", "7", ".", "0", "0", ",", "X", ",">>

\* payloads up to the position where the status letter is expected
Heads ==
    {HeadTest, HeadEmptyField, HeadNoFrac, HeadNoSep2, HeadBadTime, HeadNoSep1,
     HeadBadLatLon}

GLL == <<"G", "L", "L">>

MessageIds == {GLL, <<"G", "L", "X">>, <<"g", "l", "l">>}

(***************************************************************************)
(* nom combinators, as do_parse_gll uses them.  A parser takes the input s *)
(* and the cursor p (index of the next byte) and returns either            *)
(* [ok |-> TRUE, pos, val] or [ok |-> FALSE, kind, at]: nom's error is the *)
(* pair (remaining input, ErrorKind), and the remaining input is s from at.*)
(***************************************************************************)
Ok(p, v) == [ok |-> TRUE, pos |-> p, val |-> v]

Fail(k, p) == [ok |-> FALSE, kind |-> k, at |-> p]

Char(c, s, p) ==
    IF p <= Len(s) /\ s[p] = c THEN Ok(p + 1, c) ELSE Fail("Char", p)

OneOf(set, s, p) ==
    IF p <= Len(s) /\ s[p] \in set THEN Ok(p + 1, s[p]) ELSE Fail("OneOf", p)

RECURSIVE Find(_, _, _)
\* index of the first c in s at or after p, Len(s) + 1 if there is none
Find(c, s, p) ==
    IF p > Len(s) THEN Len(s) + 1
    ELSE IF s[p] = c THEN p ELSE Find(c, s, p + 1)

TakeUntil(c, s, p) ==
    LET q == Find(c, s, p)
    IN  IF q <= Len(s) THEN Ok(q, SubSeq(s, p, q - 1)) ELSE Fail("TakeUntil", p)

Some(v) == [some |-> TRUE, v |-> v]

None == [some |-> FALSE]

\* opt(parser): a failure becomes None and consumes nothing
Opt(r, p) == IF r.ok THEN Ok(r.pos, Some(r.val)) ELSE Ok(p, None)

(***************************************************************************)
(* The two closed enumerations and their conversions from a character.     *)
(***************************************************************************)
PosSystemIndicator ==
    {"Autonomous", "Differential", "EstimatedMode", "ManualInput", "DataNotValid"}

\* variant: the arms for E and M exchanged
PosSystemIndicatorFromSwapped(b) ==
    CASE b = "A" -> "Autonomous"
      [] b = "D" -> "Differential"
      [] b = "E" -> "ManualInput"
      [] b = "M" -> "EstimatedMode"
      [] OTHER   -> "DataNotValid"

PosSystemIndicatorFrom(b) ==
    CASE b = "A" -> "Autonomous"
      [] b = "D" -> "Differential"
      [] b = "E" -> "EstimatedMode"
      [] b = "M" -> "ManualInput"
      [] b = "N" -> "DataNotValid"
      [] OTHER   -> "DataNotValid"

GLLDataStatus == {"Valid", "Invalid"}

\* variant: the two status letters confused
GLLDataStatusFromV(b) == IF b = "V" THEN "Valid" ELSE "Invalid"

GLLDataStatusFrom(b) == IF b = "A" THEN "Valid" ELSE "Invalid"

(***************************************************************************)
(* The shared field decoders of sentences::utils.  Coordinates are kept in *)
(* hundredths of a minute (degrees * 6000 + minutes * 100, negative for    *)
(* S and W), the time as hour, minute, second and millisecond.             *)
(***************************************************************************)
DigitChars == <<"0", "1", "2", "3", "4", "5", "6", "7", "8", "9">>

Digits == {DigitChars[k] : k \in 1..10}

DigitVal(c) == (CHOOSE k \in 1..10 : DigitChars[k] = c) - 1

RECURSIVE DigitsEnd(_, _)
\* index of the first byte at or after p that is not a digit
DigitsEnd(s, p) ==
    IF p <= Len(s) /\ s[p] \in Digits THEN DigitsEnd(s, p + 1) ELSE p

RECURSIVE NumVal(_, _, _)
\* value of the digits s[a], ..., s[b], 0 if there are none
NumVal(s, a, b) ==
    IF b < a THEN 0 ELSE NumVal(s, a, b - 1) * 10 + DigitVal(s[b])

\* the first n digits of the fraction s[a..b], padded with zeros
FracVal(s, a, b, n) ==
    LET have == IF b - a + 1 < n THEN b - a + 1 ELSE n
        pad[k \in 0..n] == IF k = 0 THEN 1 ELSE 10 * pad[k - 1]
    IN  NumVal(s, a, a + have - 1) * pad[n - have]

\* take(n) of digits, read as a number
TakeNum(n, s, p) ==
    IF p + n - 1 > Len(s) THEN Fail("Eof", p)
    ELSE IF \A k \in p..(p + n - 1) : s[k] \in Digits
         THEN Ok(p + n, NumVal(s, p, p + n - 1))
         ELSE Fail("MapRes", p)

\* digits, then optionally a point and digits; the value has `scale` decimals
Decimal(s, p, scale) ==
    LET q == DigitsEnd(s, p)
        hasFrac == q <= Len(s) /\ s[q] = "." /\ DigitsEnd(s, q + 1) > q + 1
        e == IF hasFrac THEN DigitsEnd(s, q + 1) ELSE q
        pow[k \in 0..scale] == IF k = 0 THEN 1 ELSE 10 * pow[k - 1]
    IN  IF q = p THEN Fail("Float", p)
        ELSE Ok(e, NumVal(s, p, q - 1) * pow[scale]
                   + (IF hasFrac THEN FracVal(s, q + 1, e - 1, scale) ELSE 0))

\* DDmm.mm,H or DDDmm.mm,H
Coordinate(width, hemi, negative, s, p) ==
    LET deg == TakeNum(width, s, p) IN
    IF ~deg.ok THEN deg ELSE
    LET min == Decimal(s, deg.pos, 2) IN
    IF ~min.ok THEN min ELSE
    LET c == Char(",", s, min.pos) IN
    IF ~c.ok THEN c ELSE
    LET dir == OneOf(hemi, s, c.pos) IN
    IF ~dir.ok THEN dir ELSE
    Ok(dir.pos, (IF dir.val = negative THEN -1 ELSE 1) * (deg.val * 6000 + min.val))

do_parse_lat_lon(s, p) ==
    LET lat == Coordinate(2, {"N", "S"}, "S", s, p) IN
    IF ~lat.ok THEN lat ELSE
    LET c == Char(",", s, lat.pos) IN
    IF ~c.ok THEN c ELSE
    LET lon == Coordinate(3, {"E", "W"}, "W", s, c.pos) IN
    IF ~lon.ok THEN lon ELSE
    Ok(lon.pos, <<lat.val, lon.val>>)

\* HHMMSS[.ff]
parse_hms(s, p) ==
    LET h == TakeNum(2, s, p) IN
    IF ~h.ok THEN h ELSE
    LET m == TakeNum(2, s, h.pos) IN
    IF ~m.ok THEN m ELSE
    LET sec == Decimal(s, m.pos, 3) IN
    IF ~sec.ok THEN sec ELSE
    IF h.val > 23 \/ m.val > 59 \/ sec.val >= 60000 THEN Fail("MapRes", p) ELSE
    Ok(sec.pos, [hour |-> h.val, min |-> m.val, sec |-> sec.val \div 1000,
                 milli |-> sec.val % 1000])

(***************************************************************************)
(* parse_gll and do_parse_gll, one parser step per action.                 *)
(***************************************************************************)
\* the steps of do_parse_gll, in source order
Order == <<"lat_lon", "sep1", "fix_time", "decimal", "sep2", "data_state", "sep3", "mode">>

Fields == {"latitude", "longitude", "fix_time", "data_state", "mode"}

IndexOf(step) == CHOOSE k \in 1..Len(Order) : Order[k] = step

After(step) ==
    IF IndexOf(step) < Len(Order) THEN Order[IndexOf(step) + 1] ELSE "return"

\* upper case of the letters identifiers are written with
Upper(c) ==
    CASE c = "g" -> "G"
      [] c = "l" -> "L"
      [] c = "x" -> "X"
      [] OTHER   -> c

\* variant: identifiers compared without regard to case
IdMatchesIgnoreCase(id) == [k \in 1..Len(id) |-> Upper(id[k])] = GLL

\* sentence.message_id != b"GLL" is a comparison of byte slices
IdMatches(id) == id = GLL

WrongSentenceHeader(id) ==
    [tag |-> "WrongSentenceHeader", expected |-> GLL, found |-> id]

\* the conversion of a nom error done by `?` in parse_gll
ParsingError(r) == [tag |-> "ParsingError", kind |-> r.kind, at |-> r.at]

\* variant: an error that is dropped instead of returned
QuestionSwallow(step, r) == After(step)

\* the `?` operator: go on after a success, return at once on an error
Question(step, r) == IF r.ok THEN After(step) ELSE "done"

\* variant: any byte taken as status and left to the catch-all arm of the
\* conversion
StatusParserTolerant(s, p) ==
    IF p <= Len(s) THEN Ok(p + 1, GLLDataStatusFrom(s[p])) ELSE Fail("Eof", p)

\* variant: the rule of the standard enforced, a status other than Invalid
\* refused for a mode other than A and D
StatusParserCrossChecked(s, p) ==
    LET r == OneOf({"A", "V"}, s, p)
        strict == /\ p + 2 <= Len(s)
                  /\ s[p + 1] = ","
                  /\ s[p + 2] \in {"E", "M"}
    IN  IF r.ok
        THEN Ok(r.pos, IF strict THEN "Invalid" ELSE GLLDataStatusFrom(r.val))
        ELSE r

\* map(one_of("AV"), GLLDataStatus::from)
StatusParser(s, p) ==
    LET r == OneOf({"A", "V"}, s, p)
    IN  IF r.ok THEN Ok(r.pos, GLLDataStatusFrom(r.val)) ELSE r

\* variant: N accepted among the mode letters
ModeParserWithN(s, p) ==
    LET r == OneOf({"A", "D", "E", "M", "N"}, s, p)
    IN  Opt(IF r.ok THEN Ok(r.pos, PosSystemIndicatorFrom(r.val)) ELSE r, p)

\* variant: the end of the input required after the mode
ModeParserAllConsuming(s, p) ==
    LET r == OneOf({"A", "D", "E", "M"}, s, p)
        o == Opt(IF r.ok THEN Ok(r.pos, PosSystemIndicatorFrom(r.val)) ELSE r, p)
    IN  IF o.pos <= Len(s) THEN Fail("Eof", o.pos) ELSE o

\* opt(map(one_of("ADEM"), PosSystemIndicator::from))
ModeParser(s, p) ==
    LET r == OneOf({"A", "D", "E", "M"}, s, p)
    IN  Opt(IF r.ok THEN Ok(r.pos, PosSystemIndicatorFrom(r.val)) ELSE r, p)

\* variant: an empty field after the time skipped with the decimal
DecimalParserSkipEmpty(s, p) ==
    LET q == Find(",", s, p)
    IN  IF q > Len(s) THEN Fail("TakeUntil", p)
        ELSE IF q + 1 <= Len(s) /\ s[q + 1] = ","
             THEN Ok(q + 1, SubSeq(s, p, q))
             ELSE Ok(q, SubSeq(s, p, q - 1))

\* take_until(","): the ignored decimal
DecimalParser(s, p) == TakeUntil(",", s, p)

\* the cursor after a step: moved by a success, left alone by an error
Cursor(r, p) == IF r.ok THEN r.pos ELSE p

\* the outcome of parse_gll after a step: an error is converted and returned
Propagate(r, res) == IF r.ok THEN res ELSE ParsingError(r)

\* the record of a step in the history of the decode
Ran(step, r, p) == [step |-> step, ok |-> r.ok, at |-> p]

NoBindings == [f \in {} |-> 0]

\* do_parse_gll as a function of its input: the record, or the first error
do_parse_gll(s) ==
    LET r1 == do_parse_lat_lon(s, 1) IN
    IF ~r1.ok THEN ParsingError(r1) ELSE
    LET r2 == Char(",", s, r1.pos) IN
    IF ~r2.ok THEN ParsingError(r2) ELSE
    LET r3 == parse_hms(s, r2.pos) IN
    IF ~r3.ok THEN ParsingError(r3) ELSE
    LET r4 == DecimalParser(s, r3.pos) IN
    IF ~r4.ok THEN ParsingError(r4) ELSE
    LET r5 == Char(",", s, r4.pos) IN
    IF ~r5.ok THEN ParsingError(r5) ELSE
    LET r6 == StatusParser(s, r5.pos) IN
    IF ~r6.ok THEN ParsingError(r6) ELSE
    LET r7 == Char(",", s, r6.pos) IN
    IF ~r7.ok THEN ParsingError(r7) ELSE
    LET r8 == ModeParser(s, r7.pos) IN
    IF ~r8.ok THEN ParsingError(r8) ELSE
    [tag |-> "Ok",
     value |-> [latitude |-> r1.val[1], longitude |-> r1.val[2], fix_time |-> r3.val,
                data_state |-> r6.val, mode |-> r8.val]]

\* parse_gll as a function of the sentence
parse_gll(id, s) ==
    IF ~IdMatches(id) THEN WrongSentenceHeader(id) ELSE do_parse_gll(s)

Pending == [tag |-> "Pending"]

Init ==
    /\ message_id \in MessageIds
    /\ data \in {h \o t \o x : h \in Heads, t \in Tails, x \in Trailers}
    /\ pc = "guard"
    /\ i = 1
    /\ env = NoBindings
    /\ result = Pending
    /\ steps = <<>>

\* parse_gll, the identity guard
Guard ==
    /\ pc = "guard"
    /\ IF IdMatches(message_id)
       THEN /\ pc' = Order[1]
            /\ result' = result
       ELSE /\ pc' = "done"
            /\ result' = WrongSentenceHeader(message_id)
    /\ UNCHANGED <<message_id, data, i, env, steps>>

\* let (i, (latitude, longitude)) = do_parse_lat_lon(i)?;
ParseLatLon ==
    /\ pc = "lat_lon"
    /\ LET r == do_parse_lat_lon(data, i)
       IN  /\ pc' = Question("lat_lon", r)
           /\ i' = Cursor(r, i)
           /\ env' = IF r.ok THEN ("latitude" :> r.val[1]) @@ ("longitude" :> r.val[2]) @@ env ELSE env
           /\ result' = Propagate(r, result)
           /\ steps' = Append(steps, Ran("lat_lon", r, i))
    /\ UNCHANGED <<message_id, data>>

\* let (i, _) = char(',')(i)?;
Sep1 ==
    /\ pc = "sep1"
    /\ LET r == Char(",", data, i)
       IN  /\ pc' = Question("sep1", r)
           /\ i' = Cursor(r, i)
           /\ env' = env
           /\ result' = Propagate(r, result)
           /\ steps' = Append(steps, Ran("sep1", r, i))
    /\ UNCHANGED <<message_id, data>>

\* let (i, fix_time) = parse_hms(i)?;
ParseHms ==
    /\ pc = "fix_time"
    /\ LET r == parse_hms(data, i)
       IN  /\ pc' = Question("fix_time", r)
           /\ i' = Cursor(r, i)
           /\ env' = IF r.ok THEN ("fix_time" :> r.val) @@ env ELSE env
           /\ result' = Propagate(r, result)
           /\ steps' = Append(steps, Ran("fix_time", r, i))
    /\ UNCHANGED <<message_id, data>>

\* let (i, _) = take_until(",")(i)?;
SkipDecimal ==
    /\ pc = "decimal"
    /\ LET r == DecimalParser(data, i)
       IN  /\ pc' = Question("decimal", r)
           /\ i' = Cursor(r, i)
           /\ env' = env
           /\ result' = Propagate(r, result)
           /\ steps' = Append(steps, Ran("decimal", r, i))
    /\ UNCHANGED <<message_id, data>>

\* let (i, _) = char(',')(i)?;
Sep2 ==
    /\ pc = "sep2"
    /\ LET r == Char(",", data, i)
       IN  /\ pc' = Question("sep2", r)
           /\ i' = Cursor(r, i)
           /\ env' = env
           /\ result' = Propagate(r, result)
           /\ steps' = Append(steps, Ran("sep2", r, i))
    /\ UNCHANGED <<message_id, data>>

\* let (i, data_state) = map(one_of("AV"), GLLDataStatus::from)(i)?;
ParseDataState ==
    /\ pc = "data_state"
    /\ LET r == StatusParser(data, i)
       IN  /\ pc' = Question("data_state", r)
           /\ i' = Cursor(r, i)
           /\ env' = IF r.ok THEN ("data_state" :> r.val) @@ env ELSE env
           /\ result' = Propagate(r, result)
           /\ steps' = Append(steps, Ran("data_state", r, i))
    /\ UNCHANGED <<message_id, data>>

\* let (i, _) = char(',')(i)?;
Sep3 ==
    /\ pc = "sep3"
    /\ LET r == Char(",", data, i)
       IN  /\ pc' = Question("sep3", r)
           /\ i' = Cursor(r, i)
           /\ env' = env
           /\ result' = Propagate(r, result)
           /\ steps' = Append(steps, Ran("sep3", r, i))
    /\ UNCHANGED <<message_id, data>>

\* let (i, mode) = opt(map(one_of("ADEM"), PosSystemIndicator::from))(i)?;
ParseMode ==
    /\ pc = "mode"
    /\ LET r == ModeParser(data, i)
       IN  /\ pc' = Question("mode", r)
           /\ i' = Cursor(r, i)
           /\ env' = IF r.ok THEN ("mode" :> r.val) @@ env ELSE env
           /\ result' = Propagate(r, result)
           /\ steps' = Append(steps, Ran("mode", r, i))
    /\ UNCHANGED <<message_id, data>>

\* Ok((i, GllData { .. })) of do_parse_gll, and Ok(..?.1) of parse_gll
Return ==
    /\ pc = "return"
    /\ pc' = "done"
    /\ result' = [tag |-> "Ok", value |-> env]
    /\ UNCHANGED <<message_id, data, i, env, steps>>

Next ==
    \/ Guard
    \/ ParseLatLon
    \/ Sep1
    \/ ParseHms
    \/ SkipDecimal
    \/ Sep2
    \/ ParseDataState
    \/ Sep3
    \/ ParseMode
    \/ Return

Spec == Init /\ [][Next]_vars

(***************************************************************************)
(* Properties.                                                             *)
(***************************************************************************)
Done == pc = "done"

HasRun(step) == \E k \in 1..Len(steps) : steps[k].step = step

\* the cursor at which a step was applied
StepAt(step) == steps[CHOOSE k \in 1..Len(steps) : steps[k].step = step].at

\* the byte at position p of the payload, "" past its end
ByteAt(p) == IF p \in 1..Len(data) THEN data[p] ELSE ""

StatusByte == ByteAt(StepAt("data_state"))

ModeByte == ByteAt(StepAt("mode"))

\* the mode the specification gives for the byte at the mode position
ModeOf(c) ==
    CASE c = "A" -> Some("Autonomous")
      [] c = "D" -> Some("Differential")
      [] c = "E" -> Some("EstimatedMode")
      [] c = "M" -> Some("ManualInput")
      [] OTHER   -> None

\* C1: with a message identifier other than the bytes GLL, whatever the
\* payload, no parser step is ever run, the cursor and the bindings are
\* untouched, and the decode ends with WrongSentenceHeader carrying
\* expected = GLL and found = the identifier given.
C1_WrongHeader ==
    message_id # <<"G", "L", "L">> =>
        /\ steps = <<>>
        /\ i = 1
        /\ env = NoBindings
        /\ pc \in {"guard", "done"}
        /\ Done => result = [tag |-> "WrongSentenceHeader",
                             expected |-> <<"G", "L", "L">>, found |-> message_id]

C1_Witness ==
    /\ Done
    /\ message_id = <<"g", "l", "l">>
    /\ data = HeadTest \o <<"A", ",", "A">>
    /\ result.tag = "WrongSentenceHeader"

\* C2: once the fields before the status position have been decoded, a
\* status byte A is decoded as Valid and V as Invalid (and a returned record
\* carries that status); any other byte at the status position, or the end
\* of the input, ends the decode with a OneOf parse error at that position
\* and no status is bound.
C2_Status ==
    (Done /\ HasRun("data_state")) =>
        /\ StatusByte = "A" =>
              /\ "data_state" \in DOMAIN env /\ env["data_state"] = "Valid"
              /\ result.tag = "Ok" => result.value["data_state"] = "Valid"
        /\ StatusByte = "V" =>
              /\ "data_state" \in DOMAIN env /\ env["data_state"] = "Invalid"
              /\ result.tag = "Ok" => result.value["data_state"] = "Invalid"
        /\ StatusByte \notin {"A", "V"} =>
              /\ "data_state" \notin DOMAIN env
              /\ result = [tag |-> "ParsingError", kind |-> "OneOf",
                           at |-> StepAt("data_state")]

C2_Witness ==
    /\ Done
    /\ HasRun("data_state")
    /\ StatusByte = "X"
    /\ result.tag = "ParsingError"

\* the payload is well-formed but for its status byte: the fields before the
\* status position decoded, and a separator follows the status byte
WellFormedAroundStatus ==
    /\ message_id = GLL
    /\ HasRun("data_state")
    /\ StatusByte # ""
    /\ ByteAt(StepAt("data_state") + 1) = ","

\* C3 as stated: a payload well-formed but for its status byte, whose status
\* byte is any byte other than A, decodes successfully with status Invalid.
C3_Original ==
    (Done /\ WellFormedAroundStatus /\ StatusByte # "A") =>
        /\ result.tag = "Ok"
        /\ result.value["data_state"] = "Invalid"

\* C3, amended: of the status bytes other than A only V decodes, to Invalid;
\* any other byte ends the decode with a OneOf parse error at the status
\* position.
C3_Amended ==
    (Done /\ WellFormedAroundStatus /\ StatusByte # "A") =>
        IF StatusByte = "V"
        THEN /\ result.tag = "Ok"
             /\ result.value["data_state"] = "Invalid"
        ELSE result = [tag |-> "ParsingError", kind |-> "OneOf",
                       at |-> StepAt("data_state")]

C3_Witness ==
    /\ Done
    /\ WellFormedAroundStatus
    /\ StatusByte = "N"
    /\ ByteAt(StepAt("data_state") + 2) = "A"
    /\ result.tag = "ParsingError"

\* C4: once the payload has been decoded up to and including the separator
\* after the status letter, the decode succeeds; the mode is Some of
\* Autonomous, Differential, EstimatedMode, ManualInput for the bytes A, D,
\* E, M at the mode position and None for any other byte, N included.
C4_Mode ==
    (Done /\ HasRun("mode")) =>
        /\ result.tag = "Ok"
        /\ result.value["mode"] = ModeOf(ModeByte)

C4_Witness ==
    /\ Done
    /\ HasRun("mode")
    /\ ModeByte = "N"
    /\ result.tag = "Ok"
    /\ result.value["mode"] = None

\* payloads <lat>,<N|S>,<lon>,<E|W>,<HHMMSS.ff>,,<status>,<mode>
EmptyFieldShape ==
    /\ message_id = GLL
    /\ \E st \in {"A", "V"}, m \in {"A", "D", "E", "M"} :
            data = HeadEmptyField \o <<st, ",", m>>

\* C5 as stated: a payload with an empty field between the time and the
\* status letter decodes, the status taken from the letter after the two
\* separators and the mode from the letter after the next separator.
C5_Original ==
    (Done /\ EmptyFieldShape) =>
        /\ result.tag = "Ok"
        /\ result.value["data_state"]
               = (IF data[Len(HeadEmptyField) + 1] = "A" THEN "Valid" ELSE "Invalid")
        /\ result.value["mode"] = ModeOf(data[Len(HeadEmptyField) + 3])

\* C5, amended: such a payload does not decode; the status letter is looked
\* for right after the first separator that follows the time, so the decode
\* ends with a OneOf parse error at the second of the two separators.
C5_Amended ==
    (Done /\ EmptyFieldShape) =>
        result = [tag |-> "ParsingError", kind |-> "OneOf",
                  at |-> Len(HeadEmptyField)]

C5_Witness ==
    /\ Done
    /\ message_id = GLL
    /\ data = HeadEmptyField \o <<"A", ",", "A">>
    /\ result.tag = "ParsingError"
    /\ ~HasRun("sep3")

\* C6: a payload <lat>,<N|S>,<lon>,<E|W>,<HHMMSS.ff>,<status>,<mode> with one
\* separator between the time and the status letter, status in {A, V} and
\* mode in {A, D, E, M}, decodes to the record of its position, the time of
\* its time token, the status of its status letter and Some of the mode of
\* its mode letter.
C6_SingleSeparator ==
    \A st \in {"A", "V"}, m \in {"A", "D", "E", "M"} :
        (Done /\ message_id = GLL /\ data = HeadTest \o <<st, ",", m>>) =>
            /\ result.tag = "Ok"
            /\ result.value =
                  [latitude   |-> 51 * 6000 + 700,
                   longitude  |-> -(114 * 6000 + 232),
                   fix_time   |-> [hour |-> 20, min |-> 54, sec |-> 12, milli |-> 0],
                   data_state |-> IF st = "A" THEN "Valid" ELSE "Invalid",
                   mode       |-> ModeOf(m)]

C6_Witness ==
    /\ Done
    /\ message_id = GLL
    /\ data = HeadTest \o <<"V", ",", "E">>
    /\ result.tag = "Ok"
    /\ result.value["mode"] = Some("EstimatedMode")

\* the payload ends with the separator after the status letter, or right
\* after the status letter
ModeOmitted ==
    /\ message_id = GLL
    /\ HasRun("data_state")
    /\ StatusByte \in {"A", "V"}
    /\ \/ Len(data) = StepAt("data_state")
       \/ Len(data) = StepAt("data_state") + 1 /\ data[Len(data)] = ","

\* C7: a payload well-formed through its status letter that ends with the
\* separator after it, or right after the status letter with no separator,
\* decodes successfully with mode None.
C7_ModeOmitted ==
    (Done /\ ModeOmitted) =>
        /\ result.tag = "Ok"
        /\ result.value["mode"] = None

\* C8: the steps run are an initial part of the source order, each applied at
\* or after the cursor of the one before; only the last step run can have
\* failed; a decode that ended with GLL as identifier returns either the
\* error of the step that failed, at the cursor of that step, or, after all
\* eight steps succeeded, a record of exactly the five fields.
C8_LeftToRight ==
    /\ Len(steps) <= Len(Order)
    /\ \A k \in 1..Len(steps) : steps[k].step = Order[k]
    /\ \A k \in 1..(Len(steps) - 1) : steps[k].ok /\ steps[k].at <= steps[k + 1].at
    /\ (Done /\ message_id = GLL) =>
          /\ Len(steps) >= 1
          /\ IF steps[Len(steps)].ok
             THEN /\ Len(steps) = Len(Order)
                  /\ result.tag = "Ok"
                  /\ DOMAIN result.value = Fields
             ELSE /\ result.tag = "ParsingError"
                  /\ result.at >= steps[Len(steps)].at
    /\ result.tag = "Ok" => Done /\ DOMAIN result.value = Fields

C8_Witness ==
    /\ Done
    /\ Len(steps) = 7
    /\ ~steps[7].ok
    /\ result = [tag |-> "ParsingError", kind |-> "Char", at |-> Len(data) + 1]

\* C9: whenever the decode reaches the mode position it succeeds, with the
\* status that of the status letter alone and the mode that of the mode
\* byte alone; status A with mode E or M gives Valid with
\* Some(EstimatedMode) or Some(ManualInput).
C9_NoCrossValidation ==
    (Done /\ HasRun("mode")) =>
        /\ result.tag = "Ok"
        /\ result.value["data_state"] = (IF StatusByte = "A" THEN "Valid" ELSE "Invalid")
        /\ result.value["mode"] = ModeOf(ModeByte)
        /\ (StatusByte = "A" /\ ModeByte = "E") =>
              /\ result.value["data_state"] = "Valid"
              /\ result.value["mode"] = Some("EstimatedMode")
        /\ (StatusByte = "A" /\ ModeByte = "M") =>
              /\ result.value["data_state"] = "Valid"
              /\ result.value["mode"] = Some("ManualInput")

C9_Witness ==
    /\ Done
    /\ HasRun("mode")
    /\ StatusByte = "A"
    /\ ModeByte = "M"
    /\ result.tag = "Ok"
    /\ result.value["data_state"] = "Valid"
    /\ result.value["mode"] = Some("ManualInput")

\* longest byte string tried in place of the bytes after the mode position
MaxTrailing == 2

Trailing == SeqsUpTo(TailAlphabet, MaxTrailing)

\* C10: when the decode reaches the mode position it succeeds, and every
\* payload that agrees with this one up to and including the mode letter (up
\* to the separator after the status, when the mode position holds none of
\* A, D, E, M in either payload) decodes to the same record.
C10_TrailingIgnored ==
    (Done /\ message_id = GLL /\ HasRun("mode")) =>
        LET taken  == ModeByte \in {"A", "D", "E", "M"}
            prefix == SubSeq(data, 1, i - 1)
        IN  /\ result.tag = "Ok"
            /\ i = StepAt("mode") + (IF taken THEN 1 ELSE 0)
            /\ \A x \in Trailing :
                  (taken \/ x = <<>> \/ x[1] \notin {"A", "D", "E", "M"}) =>
                      parse_gll(message_id, prefix \o x) = result

C10_Witness ==
    /\ Done
    /\ message_id = GLL
    /\ HasRun("mode")
    /\ ModeByte = "D"
    /\ Len(data) >= StepAt("mode") + 2
    /\ result.tag = "Ok"

====
